---- MODULE Spec2Model ----
(***************************************************************************)
(* Option pricing engines of src/option.py and src/models.py:              *)
(* OptionModels.calc_price and the three engines Black_Scholes, MonteCarlo *)
(* and Binomial, together with numpy's process-global random generator.    *)
(*                                                                         *)
(* Floating point numbers are modelled as fixed-point integers: a float x  *)
(* is the integer floor(x * SCALE).  numpy / scipy library functions       *)
(* (exp, sqrt, log, norm.cdf) are computed in that arithmetic.             *)
(***************************************************************************)
EXTENDS Integers, Sequences, FiniteSets, TLC

VARIABLES obj, np_random, ret, frame

vars == <<obj, np_random, ret, frame>>

(* ------------------------------ bounds -------------------------------- *)

\* fixed-point resolution: units per 1.0
SCALE == 1000
\* largest days_to_maturity given to a MonteCarlo (its num_of_steps)
MaxDays == 3
\* largest number_of_simulations given to a MonteCarlo
MaxN == 2
\* largest time_steps given to a Binomial
MaxSteps == 3
\* most negative time_steps given to a Binomial is -NegSteps
NegSteps == 2

(* --------------------------- fixed point ------------------------------ *)

Mul(a, b) == (a * b) \div SCALE

Div(a, b) == (a * SCALE) \div b

\* the float n/d
Frac(n, d) == (n * SCALE) \div d

Max(a, b) == IF a >= b THEN a ELSE b

Min(a, b) == IF a <= b THEN a ELSE b

RECURSIVE ExpSeries(_, _, _, _)
ExpSeries(x, term, k, acc) ==
    IF k > 10 THEN acc
    ELSE LET next == (term * x) \div (SCALE * k)
         IN  ExpSeries(x, next, k + 1, acc + next)

\* np.exp on a float
np_exp(x) == ExpSeries(x, SCALE, 1, SCALE)

RECURSIVE SqrtSearch(_, _, _)
SqrtSearch(n, lo, hi) ==
    IF lo >= hi THEN lo
    ELSE LET mid == (lo + hi + 1) \div 2
         IN  IF mid * mid <= n THEN SqrtSearch(n, mid, hi)
                               ELSE SqrtSearch(n, lo, mid - 1)

\* np.sqrt on a non-negative float
np_sqrt(x) == SqrtSearch(x * SCALE, 0, Min(x * SCALE, 46340))

\* np.log on a positive float: 2 * atanh((x-1)/(x+1)), five terms
np_log(x) ==
    LET y  == Div(x - SCALE, x + SCALE)
        y2 == Mul(y, y)
        y3 == Mul(y, y2)
        y5 == Mul(y3, y2)
        y7 == Mul(y5, y2)
        y9 == Mul(y7, y2)
    IN  2 * (y + y3 \div 3 + y5 \div 5 + y7 \div 7 + y9 \div 9)

\* scipy.stats.norm.cdf(x, 0.0, 1.0), on x >= 0
NormCdfPos(x) ==
    IF x >= Frac(26, 10) THEN SCALE
    ELSE IF x > Frac(22, 10) THEN Frac(99, 100)
    ELSE Frac(1, 2) + Mul(x, Frac(44, 10) - x) \div 10

norm_cdf(x) == IF x >= 0 THEN NormCdfPos(x) ELSE SCALE - NormCdfPos(-x)

\* x ** j for an integer j >= 0
RECURSIVE Pow(_, _)
Pow(x, j) == IF j <= 0 THEN SCALE ELSE Mul(Pow(x, j - 1), x)

\* an ndarray built from an index-to-value rule: the values, computed once
Array(f) == f \o << >>

RECURSIVE SeqSum(_)
SeqSum(s) == IF s = << >> THEN 0 ELSE Head(s) + SeqSum(Tail(s))

(* ------------------------- Python values ------------------------------ *)

\* option.py: Option.CALL.value, Option.PUT.value
Option_CALL == "Call Option"

Option_PUT == "Put Option"

\* Python's None (a stored path matrix always has at least one row)
None == << >>

\* what a call produced: a returned float, or an exception and the line of
\* src/models.py that raised it.  V_T and rounds expose the locals of a lattice
\* call: the terminal payoff vector it built and the number of collapse rounds
\* its loop ran.
Return(v) ==
    [kind |-> "return", value |-> v, exc |-> "", line |-> 0, V_T |-> << >>, rounds |-> 0]

Raise(e, line) ==
    [kind |-> "raise", value |-> 0, exc |-> e, line |-> line, V_T |-> << >>, rounds |-> 0]

\* a method call: the object and numpy's generator after it, its outcome and
\* the payoff methods that were entered
Result(self, g, out, calls) ==
    [self |-> self, np_random |-> g, out |-> out, calls |-> calls]

(* --------------------- numpy's global generator ----------------------- *)

\* mutant of np_random_seed: the seed is not applied to the global generator
np_random_seed_ignored(g, s) == g

\* np.random.seed(s)
np_random_seed(g, s) == s

\* the generator's next state
np_random_next(g) == (g * 2) % 101

\* the standard normal variate a generator state yields
np_random_normal(g) == ((g % 41) - 20) * (SCALE \div 10)

\* np.random.standard_normal(n): n variates, and the generator after them
RECURSIVE np_random_standard_normal(_, _)
np_random_standard_normal(g, n) ==
    IF n <= 0 THEN [Z |-> << >>, np_random |-> g]
    ELSE LET g1   == np_random_next(g)
             rest == np_random_standard_normal(g1, n - 1)
         IN  [Z |-> <<np_random_normal(g1)>> \o rest.Z, np_random |-> rest.np_random]

(* --------------------------- Black_Scholes ---------------------------- *)

Black_Scholes(underlying_price, strike_price, days_to_maturity, risk_free_rate, sigma) ==
    [cls   |-> "Black_Scholes",
     S     |-> underlying_price,
     K     |-> strike_price,
     T     |-> Frac(days_to_maturity, 365),
     r     |-> risk_free_rate,
     sigma |-> sigma]

Black_Scholes_d1(self) ==
    Div(np_log(Div(self.S, self.K))
          + Mul(self.r + Mul(Frac(1, 2), Pow(self.sigma, 2)), self.T),
        Mul(self.sigma, np_sqrt(self.T)))

Black_Scholes_d2(self) ==
    Div(np_log(Div(self.S, self.K))
          + Mul(self.r - Mul(Frac(1, 2), Pow(self.sigma, 2)), self.T),
        Mul(self.sigma, np_sqrt(self.T)))

Black_Scholes_calc_call_price(self, g) ==
    LET d1 == Black_Scholes_d1(self)
        d2 == Black_Scholes_d2(self)
    IN  Result(self, g,
               Return(Mul(self.S, norm_cdf(d1))
                      - Mul(Mul(self.K, np_exp(Mul(-self.r, self.T))), norm_cdf(d2))),
               <<"calc_call_price">>)

Black_Scholes_calc_put_price(self, g) ==
    LET d1 == Black_Scholes_d1(self)
        d2 == Black_Scholes_d2(self)
    IN  Result(self, g,
               Return(Mul(Mul(self.K, np_exp(Mul(-self.r, self.T))), norm_cdf(-d2))
                      - Mul(self.S, norm_cdf(-d1))),
               <<"calc_put_price">>)

(* ----------------------------- MonteCarlo ----------------------------- *)

\* attrs is the set of attributes assigned so far besides the constructor's;
\* reading one that is not in it raises AttributeError
MonteCarlo(underlying_asset, strike_price, days_to_maturity, risk_free_rate, sigma, number_of_simulations) ==
    [cls          |-> "MonteCarlo",
     S_0          |-> underlying_asset,
     K            |-> strike_price,
     T            |-> Frac(days_to_maturity, 365),
     r            |-> risk_free_rate,
     sigma        |-> sigma,
     N            |-> number_of_simulations,
     num_of_steps |-> days_to_maturity,
     dt           |-> Frac(days_to_maturity, 365) \div days_to_maturity,
     attrs        |-> {},
     simulation_results_S |-> None]

\* S[t - 1] * np.exp((r - 0.5 * sigma ** 2) * dt + (sigma * np.sqrt(dt) * Z)), one column
gbm_advance(self, prev, z) ==
    Mul(prev,
        np_exp(Mul(self.r - Mul(Frac(1, 2), Pow(self.sigma, 2)), self.dt)
               + Mul(Mul(self.sigma, np_sqrt(self.dt)), z)))

\* lines 61-67: seed, reset, allocate S and set row 0
simulate_begin(self, g) ==
    [self      |-> [self EXCEPT !.attrs = @ \cup {"simulation_results"}],
     np_random |-> np_random_seed(g, 40),
     S         |-> Array([t \in 1..self.num_of_steps |->
                      Array([c \in 1..self.N |-> IF t = 1 THEN self.S_0 ELSE 0])]),
     t         |-> 1]

\* mutant of simulate_row: every row is advanced from row 0
simulate_row_from_first(self, g, S, t) ==
    LET d == np_random_standard_normal(g, self.N)
    IN  [np_random |-> d.np_random,
         S         |-> [S EXCEPT ![t + 1] =
                          Array([c \in 1..self.N |-> gbm_advance(self, S[1][c], d.Z[c])])],
         t         |-> t + 1]

\* lines 71-73: one pass of the loop body, for Python row t (row t + 1 here)
simulate_row(self, g, S, t) ==
    LET d == np_random_standard_normal(g, self.N)
    IN  [np_random |-> d.np_random,
         S         |-> [S EXCEPT ![t + 1] =
                          Array([c \in 1..self.N |-> gbm_advance(self, S[t][c], d.Z[c])])],
         t         |-> t + 1]

\* line 69: for t in range(1, self.num_of_steps)
RECURSIVE simulate_loop(_, _, _, _)
simulate_loop(self, g, S, t) ==
    IF t < self.num_of_steps
    THEN LET n == simulate_row(self, g, S, t)
         IN  simulate_loop(self, n.np_random, n.S, n.t)
    ELSE [np_random |-> g, S |-> S, t |-> t]

\* line 75: self.simulation_results_S = S
simulate_store(self, S) ==
    [self EXCEPT !.attrs = @ \cup {"simulation_results_S"},
                 !.simulation_results_S = S]

simulate_prices(self, g) ==
    LET b == simulate_begin(self, g)
        l == simulate_loop(b.self, b.np_random, b.S, b.t)
    IN  Result(simulate_store(b.self, l.S), l.np_random, Return(0), << >>)

\* the last row of the stored matrix: simulation_results_S[-1]
LastRow(S) == S[Len(S)]

\* mutant of MonteCarlo_calc_call_price: paths are generated on demand
MonteCarlo_calc_call_price_on_demand(self, g) ==
    LET m    == IF "simulation_results_S" \in self.attrs
                THEN Result(self, g, Return(0), << >>)
                ELSE simulate_prices(self, g)
        last == LastRow(m.self.simulation_results_S)
        pay  == Array([c \in 1..Len(last) |-> Max(last[c] - self.K, 0)])
    IN  Result(m.self, m.np_random,
               Return(Mul((np_exp(Mul(-self.r, self.T)) * 1) \div self.N, SeqSum(pay))),
               <<"calc_call_price">>)

MonteCarlo_calc_call_price(self, g) ==
    IF "simulation_results_S" \notin self.attrs
    THEN Result(self, g, Raise("AttributeError", 83), <<"calc_call_price">>)
    ELSE IF self.simulation_results_S = None
    THEN Result(self, g, Return(-1), <<"calc_call_price">>)
    ELSE LET last == LastRow(self.simulation_results_S)
             pay  == Array([c \in 1..Len(last) |-> Max(last[c] - self.K, 0)])
         IN  Result(self, g,
                    Return(Mul((np_exp(Mul(-self.r, self.T)) * 1) \div self.N, SeqSum(pay))),
                    <<"calc_call_price">>)

MonteCarlo_calc_put_price(self, g) ==
    IF "simulation_results_S" \notin self.attrs
    THEN Result(self, g, Raise("AttributeError", 93), <<"calc_put_price">>)
    ELSE IF self.simulation_results_S = None
    THEN Result(self, g, Return(-1), <<"calc_put_price">>)
    ELSE LET last == LastRow(self.simulation_results_S)
             pay  == Array([c \in 1..Len(last) |-> Max(self.K - last[c], 0)])
         IN  Result(self, g,
                    Return(Mul((np_exp(Mul(-self.r, self.T)) * 1) \div self.N, SeqSum(pay))),
                    <<"calc_put_price">>)

\* reads simulation_results_S[:, 0:num_of_movements] and hands it to pyplot
plot_simulation_results(self, g) ==
    IF "simulation_results_S" \notin self.attrs
    THEN Result(self, g, Raise("AttributeError", 101), << >>)
    ELSE IF self.simulation_results_S = None
    THEN Result(self, g, Raise("TypeError", 101), << >>)
    ELSE Result(self, g, Return(0), << >>)

(* ------------------------------ Binomial ------------------------------ *)

Binomial(underlying_price, strike_price, days_to_maturity, risk_free_rate, vol, time_steps) ==
    [cls   |-> "Binomial",
     S     |-> underlying_price,
     K     |-> strike_price,
     T     |-> days_to_maturity * SCALE,
     r     |-> risk_free_rate,
     vol   |-> vol,
     steps |-> time_steps]

\* the locals both payoff methods compute first (lines 121-131, 141-151)
Binomial_locals(self) ==
    LET dt == self.T \div self.steps
        u  == np_exp(Mul(self.vol, np_sqrt(dt)))
        d  == Div(SCALE, u)
        a  == np_exp(Mul(self.r, dt))
        p  == Div(a - d, u - d)
    IN  [dt   |-> dt,
         u    |-> u,
         d    |-> d,
         S_T  |-> Array([j \in 1..(self.steps + 1) |->
                     Mul(Mul(self.S, Pow(u, j - 1)), Pow(d, self.steps - (j - 1)))]),
         p    |-> p,
         q    |-> SCALE - p,
         disc |-> np_exp(Mul(-self.r, dt))]

\* line 133: V[:] = np.maximum(S_T - self.K, 0.0)
call_terminal_payoff(self, S_T) ==
    Array([j \in 1..Len(S_T) |-> Max(S_T[j] - self.K, 0)])

\* line 153: V[:] = np.maximum(S_T - self.K, 0.0)
put_terminal_payoff(self, S_T) ==
    Array([j \in 1..Len(S_T) |-> Max(S_T[j] - self.K, 0)])

\* V[:-1] = np.exp(-self.r * dt) * (p * V[1:] + q * V[:-1]): the right side is
\* evaluated on the old vector, the last entry is left as it is
collapse(V, disc, p, q) ==
    Array([k \in 1..Len(V) |->
             IF k < Len(V) THEN Mul(disc, Mul(p, V[k + 1]) + Mul(q, V[k])) ELSE V[k]])

\* mutant of backward_induction: the loop stops one round early
RECURSIVE backward_induction_short(_, _, _, _, _, _)
backward_induction_short(V, i, disc, p, q, rounds) ==
    IF i > 0
    THEN backward_induction_short(collapse(V, disc, p, q), i - 1, disc, p, q, rounds + 1)
    ELSE [V |-> V, rounds |-> rounds]

\* for i in range(self.steps - 1, -1, -1): the vector and the rounds run
RECURSIVE backward_induction(_, _, _, _, _, _)
backward_induction(V, i, disc, p, q, rounds) ==
    IF i > -1
    THEN backward_induction(collapse(V, disc, p, q), i - 1, disc, p, q, rounds + 1)
    ELSE [V |-> V, rounds |-> rounds]

\* the rest of a payoff method once V holds the terminal payoff; V of length 0
\* has no V[0]
lattice_price(self, g, V, loc, name) ==
    LET b == backward_induction(V, self.steps - 1, loc.disc, loc.p, loc.q, 0)
    IN  Result(self, g,
               [kind |-> "return", value |-> b.V[1], exc |-> "", line |-> 0,
                V_T |-> V, rounds |-> b.rounds],
               <<name>>)

Binomial_calc_call_price(self, g) ==
    IF self.steps = 0
    THEN Result(self, g, Raise("ZeroDivisionError", 121), <<"calc_call_price">>)
    ELSE IF self.steps + 1 < 0
    THEN Result(self, g, Raise("ValueError", 125), <<"calc_call_price">>)
    ELSE IF self.steps + 1 = 0
    THEN Result(self, g, Raise("IndexError", 138), <<"calc_call_price">>)
    ELSE LET loc == Binomial_locals(self)
         IN  lattice_price(self, g, call_terminal_payoff(self, loc.S_T), loc,
                           "calc_call_price")

Binomial_calc_put_price(self, g) ==
    IF self.steps = 0
    THEN Result(self, g, Raise("ZeroDivisionError", 141), <<"calc_put_price">>)
    ELSE IF self.steps + 1 < 0
    THEN Result(self, g, Raise("ValueError", 145), <<"calc_put_price">>)
    ELSE IF self.steps + 1 = 0
    THEN Result(self, g, Raise("IndexError", 156), <<"calc_put_price">>)
    ELSE LET loc == Binomial_locals(self)
         IN  lattice_price(self, g, put_terminal_payoff(self, loc.S_T), loc,
                           "calc_put_price")

(* ---------------------------- OptionModels ---------------------------- *)

\* self.calc_call_price(): the method of self's class
calc_call_price(self, g) ==
    CASE self.cls = "Black_Scholes" -> Black_Scholes_calc_call_price(self, g)
      [] self.cls = "MonteCarlo"    -> MonteCarlo_calc_call_price(self, g)
      [] self.cls = "Binomial"      -> Binomial_calc_call_price(self, g)

\* self.calc_put_price(): the method of self's class
calc_put_price(self, g) ==
    CASE self.cls = "Black_Scholes" -> Black_Scholes_calc_put_price(self, g)
      [] self.cls = "MonteCarlo"    -> MonteCarlo_calc_put_price(self, g)
      [] self.cls = "Binomial"      -> Binomial_calc_put_price(self, g)

\* mutant of calc_price: the two branches are exchanged
calc_price_swapped(self, g, o_type) ==
    IF o_type = Option_CALL THEN calc_put_price(self, g)
    ELSE IF o_type = Option_PUT THEN calc_call_price(self, g)
    ELSE Result(self, g, Return(-1), << >>)

\* mutant of calc_price: every value that is not CALL is priced as a put
calc_price_else_put(self, g, o_type) ==
    IF o_type = Option_CALL THEN calc_call_price(self, g)
    ELSE calc_put_price(self, g)

calc_price(self, g, o_type) ==
    IF o_type = Option_CALL THEN calc_call_price(self, g)
    ELSE IF o_type = Option_PUT THEN calc_put_price(self, g)
    ELSE Result(self, g, Return(-1), << >>)

(* --------------------------- the state machine ------------------------ *)

\* two engine instances, each of any of the three classes
Insts == {1, 2}

\* the values a caller passes as o_type: the two Option values (strings), and
\* two values that equal neither: another string and the enum member Option.CALL
Kinds == {Option_CALL, Option_PUT, "Straddle", "Option.CALL"}

\* src/test.py's engine and an at-the-money one
BlackScholesEngines ==
    { Black_Scholes(Frac(13915, 100), Frac(50, 1), 363, Frac(681, 1000), Frac(1384, 10000)),
      Black_Scholes(Frac(100, 1), Frac(100, 1), 365, Frac(5, 100), Frac(20, 100)) }

MonteCarloEngines ==
    { MonteCarlo(Frac(100, 1), Frac(100, 1), days, Frac(5, 100), Frac(50, 100), n) :
        days \in 1..MaxDays, n \in 1..MaxN }

BinomialEngines ==
    { Binomial(Frac(100, 1), Frac(100, 1), 2, Frac(5, 100), Frac(20, 100), steps) :
        steps \in (0 - NegSteps)..MaxSteps }

Engines == BlackScholesEngines \cup MonteCarloEngines \cup BinomialEngines

\* the generator is seeded from the operating system when numpy is imported
EntropyStates == {7, 58}

\* no simulate_prices call is in flight
Idle == [pc |-> "idle", S |-> << >>, t |-> 0]

Init ==
    /\ obj \in [Insts -> Engines]
    /\ np_random \in EntropyStates
    /\ ret = [inst |-> 0, op |-> "__init__", arg |-> "", out |-> Return(0), calls |-> << >>]
    /\ frame = [i \in Insts |-> Idle]

\* a whole method call on instance i
Apply(i, op, arg, res) ==
    /\ obj' = [obj EXCEPT ![i] = res.self]
    /\ np_random' = res.np_random
    /\ ret' = [inst |-> i, op |-> op, arg |-> arg, out |-> res.out, calls |-> res.calls]
    /\ UNCHANGED frame

Do_calc_price(i) ==
    \E o_type \in Kinds :
        /\ frame[i].pc = "idle"
        /\ Apply(i, "calc_price", o_type, calc_price(obj[i], np_random, o_type))

Do_calc_call_price(i) ==
    /\ frame[i].pc = "idle"
    /\ Apply(i, "calc_call_price", "", calc_call_price(obj[i], np_random))

Do_calc_put_price(i) ==
    /\ frame[i].pc = "idle"
    /\ Apply(i, "calc_put_price", "", calc_put_price(obj[i], np_random))

Do_simulate_prices(i) ==
    /\ obj[i].cls = "MonteCarlo"
    /\ frame[i].pc = "idle"
    /\ Apply(i, "simulate_prices", "", simulate_prices(obj[i], np_random))

Do_plot_simulation_results(i) ==
    /\ obj[i].cls = "MonteCarlo"
    /\ frame[i].pc = "idle"
    /\ Apply(i, "plot_simulation_results", "", plot_simulation_results(obj[i], np_random))

\* every operation runs from call to return before the next one starts
Next ==
    \E i \in Insts :
        \/ Do_calc_price(i)
        \/ Do_calc_call_price(i)
        \/ Do_calc_put_price(i)
        \/ Do_simulate_prices(i)
        \/ Do_plot_simulation_results(i)

Spec == Init /\ [][Next]_vars

(* ---- simulate_prices statement by statement, instances interleaved ---- *)

\* lines 61-67 of a simulate_prices call on i
Step_simulate_begin(i) ==
    /\ obj[i].cls = "MonteCarlo"
    /\ frame[i].pc = "idle"
    /\ LET b == simulate_begin(obj[i], np_random)
       IN  /\ obj' = [obj EXCEPT ![i] = b.self]
           /\ np_random' = b.np_random
           /\ frame' = [frame EXCEPT ![i] = [pc |-> "loop", S |-> b.S, t |-> b.t]]
    /\ UNCHANGED ret

\* one pass of the loop body, lines 69-73
Step_simulate_row(i) ==
    /\ frame[i].pc = "loop"
    /\ frame[i].t < obj[i].num_of_steps
    /\ LET n == simulate_row(obj[i], np_random, frame[i].S, frame[i].t)
       IN  /\ np_random' = n.np_random
           /\ frame' = [frame EXCEPT ![i] = [pc |-> "loop", S |-> n.S, t |-> n.t]]
    /\ UNCHANGED <<obj, ret>>

\* the loop has ended: line 75 and the return
Step_simulate_store(i) ==
    /\ frame[i].pc = "loop"
    /\ frame[i].t >= obj[i].num_of_steps
    /\ obj' = [obj EXCEPT ![i] = simulate_store(obj[i], frame[i].S)]
    /\ ret' = [inst |-> i, op |-> "simulate_prices", arg |-> "", out |-> Return(0),
               calls |-> << >>]
    /\ frame' = [frame EXCEPT ![i] = Idle]
    /\ UNCHANGED np_random

\* the calls on one instance follow one another; those on different instances
\* interleave at the statements of simulate_prices
NextSteps ==
    \E i \in Insts :
        \/ Step_simulate_begin(i)
        \/ Step_simulate_row(i)
        \/ Step_simulate_store(i)
        \/ Do_calc_price(i)
        \/ Do_calc_call_price(i)
        \/ Do_calc_put_price(i)
        \/ Do_plot_simulation_results(i)

SpecSteps == Init /\ [][NextSteps]_vars

(* ------------------------------ properties ---------------------------- *)

PayoffOps == {"calc_price", "calc_call_price", "calc_put_price"}

\* the last operation asked for a call price / a put price
CallRequested ==
    ret.op = "calc_call_price" \/ (ret.op = "calc_price" /\ ret.arg = Option_CALL)

PutRequested ==
    ret.op = "calc_put_price" \/ (ret.op = "calc_price" /\ ret.arg = Option_PUT)

\* instance i is a MonteCarlo whose simulation_results_S has been assigned
Simulated(i) ==
    obj[i].cls = "MonteCarlo" /\ "simulation_results_S" \in obj[i].attrs

\* the constructor-supplied part of an engine
Params(e) ==
    IF e.cls = "MonteCarlo"
    THEN <<e.cls, e.S_0, e.K, e.T, e.r, e.sigma, e.N, e.num_of_steps, e.dt>>
    ELSE IF e.cls = "Binomial"
    THEN <<e.cls, e.S, e.K, e.T, e.r, e.vol, e.steps>>
    ELSE <<e.cls, e.S, e.K, e.T, e.r, e.sigma>>

\* C1: calc_price(CALL) gives exactly what calc_call_price() gives and
\* calc_price(PUT) exactly what calc_put_price() gives, on every engine, and
\* enters that one payoff method only.
C1_Dispatch ==
    (ret.op = "calc_price" /\ ret.arg \in {Option_CALL, Option_PUT}) =>
        LET self == obj[ret.inst]
        IN  IF ret.arg = Option_CALL
            THEN /\ ret.out = calc_call_price(self, np_random).out
                 /\ ret.calls = <<"calc_call_price">>
            ELSE /\ ret.out = calc_put_price(self, np_random).out
                 /\ ret.calls = <<"calc_put_price">>

\* a Black_Scholes engine priced a put through calc_price, and its put and call
\* prices differ
C1_Witness ==
    /\ ret.op = "calc_price"
    /\ ret.arg = Option_PUT
    /\ obj[ret.inst].cls = "Black_Scholes"
    /\ ret.out.kind = "return"
    /\ ret.out.value # calc_call_price(obj[ret.inst], np_random).out.value

\* C2: calc_price with a kind that is neither CALL nor PUT returns -1, raises
\* nothing and enters neither payoff method, whatever the engine's state.
C2_InvalidKindSentinel ==
    (ret.op = "calc_price" /\ ret.arg \notin {Option_CALL, Option_PUT}) =>
        /\ ret.out.kind = "return"
        /\ ret.out.value = -1
        /\ ret.calls = << >>

\* an unrecognized kind was passed to a MonteCarlo that has no paths yet
C2_Witness ==
    /\ ret.op = "calc_price"
    /\ ret.arg = "Straddle"
    /\ obj[ret.inst].cls = "MonteCarlo"
    /\ ~Simulated(ret.inst)
    /\ ret.out.value = -1

\* C3: a payoff requested from a MonteCarlo on which simulate_prices() never
\* ran returns the sentinel -1, and a payoff call yields a price only after a
\* completed simulate_prices().
C3_UncomputedSentinel ==
    (/\ ret.op \in PayoffOps
     /\ (ret.op = "calc_price" => ret.arg \in {Option_CALL, Option_PUT})
     /\ obj[ret.inst].cls = "MonteCarlo") =>
        /\ ~Simulated(ret.inst) => (ret.out.kind = "return" /\ ret.out.value = -1)
        /\ (ret.out.kind = "return" /\ ret.out.value # -1) => Simulated(ret.inst)

\* C4: Binomial.calc_put_price() builds its terminal payoff as max(K - S_T[j], 0)
\* at every terminal node, so that it differs from the call's vector whenever a
\* terminal price is not the strike.
C4_PutTerminalPayoff ==
    (PutRequested /\ obj[ret.inst].cls = "Binomial" /\ ret.out.kind = "return") =>
        LET self == obj[ret.inst]
            S_T  == Binomial_locals(self).S_T
        IN  /\ ret.out.V_T = Array([j \in 1..(self.steps + 1) |-> Max(self.K - S_T[j], 0)])
            /\ (\E j \in 1..(self.steps + 1) : S_T[j] # self.K) =>
                   ret.out.V_T # call_terminal_payoff(self, S_T)

\* C5: a Binomial with time_steps < 1 is rejected before the dt = T / steps
\* division is reached (line 121 for a call, line 141 for a put), and no price
\* is returned.
C5_RejectsStepsBelowOne ==
    (/\ CallRequested \/ PutRequested
     /\ obj[ret.inst].cls = "Binomial"
     /\ obj[ret.inst].steps < 1) =>
        /\ ret.out.kind = "raise"
        /\ ret.out.line < (IF CallRequested THEN 121 ELSE 141)

\* the price a payoff method gives on the instance's current state
PriceNow(i) ==
    <<calc_call_price(obj[i], np_random).out, calc_put_price(obj[i], np_random).out>>

\* two MonteCarlo instances with the same parameters that both ran
\* simulate_prices() hold the same matrix and give the same prices
SameParamsSameResults ==
    \A i, j \in Insts :
        (Simulated(i) /\ Simulated(j) /\ Params(obj[i]) = Params(obj[j])) =>
            /\ obj[i].simulation_results_S = obj[j].simulation_results_S
            /\ PriceNow(i) = PriceNow(j)

\* a further simulate_prices() on an instance reproduces its matrix
ResimulateReproduces ==
    \A i \in Insts :
        (Simulated(i) /\ ret'.op = "simulate_prices" /\ ret'.inst = i) =>
            obj'[i].simulation_results_S = obj[i].simulation_results_S

\* C6: MonteCarlo instances built with identical parameters end, once each has
\* run simulate_prices() (one call after the other, in any order, with any
\* operations between), with identical matrices and identical call and put
\* prices; and simulating again on one instance reproduces its matrix.
C6_Reproducible == [](SameParamsSameResults) /\ [][ResimulateReproduces]_vars

\* two instances with the same parameters, three rows and two paths, have both
\* simulated, and the paths moved
C6_Witness ==
    /\ Simulated(1) /\ Simulated(2)
    /\ Params(obj[1]) = Params(obj[2])
    /\ obj[1].num_of_steps >= 3 /\ obj[1].N >= 2
    /\ obj[2].simulation_results_S[3] # obj[2].simulation_results_S[2]
    /\ ret.op = "simulate_prices"

\* the generator state k draws after seeding with s
RECURSIVE stream_state(_, _)
stream_state(s, k) == IF k <= 0 THEN s ELSE np_random_next(stream_state(s, k - 1))

\* C7: after a completed simulate_prices() the stored matrix has num_of_steps
\* rows of N columns, row 0 is the spot price in every column, and row t is
\* row t-1 advanced by the N draws of step t (draws (t-1)*N+1 .. t*N of the
\* seeded stream); the matrix seen between operations is never partly filled.
C7_PathMatrix ==
    \A i \in Insts :
        Simulated(i) =>
            LET self == obj[i]
                M    == self.simulation_results_S
            IN  /\ Len(M) = self.num_of_steps
                /\ \A t \in 1..Len(M) : Len(M[t]) = self.N
                /\ \A c \in 1..self.N : M[1][c] = self.S_0
                /\ \A t \in 2..Len(M) : \A c \in 1..self.N :
                       M[t][c] = gbm_advance(self, M[t - 1][c],
                                     np_random_normal(stream_state(40, (t - 2) * self.N + c)))

\* a simulate_prices() on an instance with three rows and two paths completed
C7_Witness ==
    /\ ret.op = "simulate_prices"
    /\ Simulated(ret.inst)
    /\ obj[ret.inst].num_of_steps >= 3
    /\ obj[ret.inst].N >= 2
    /\ obj[ret.inst].simulation_results_S[3] # obj[ret.inst].simulation_results_S[2]

\* the root of the recombining tree: each round keeps one entry fewer
RECURSIVE RootValue(_, _, _, _)
RootValue(V, disc, p, q) ==
    IF Len(V) <= 1 THEN V[1]
    ELSE RootValue(Array([k \in 1..(Len(V) - 1) |->
                            Mul(disc, Mul(p, V[k + 1]) + Mul(q, V[k]))]), disc, p, q)

\* payoffs the terminal vectors are drawn from
PayoffSamples == {0, Frac(10, 1), Frac(25, 1)}

\* C8: for steps >= 1 the backward induction runs exactly `steps` collapse
\* rounds, and for every terminal payoff vector of length steps+1 its V[0] is
\* the root value of the recombining tree whose live vector loses one entry per
\* round: the entries outside the live range do not reach V[0].
C8_BackwardInduction ==
    (/\ CallRequested \/ PutRequested
     /\ obj[ret.inst].cls = "Binomial"
     /\ ret.out.kind = "return") =>
        LET self == obj[ret.inst]
            loc  == Binomial_locals(self)
        IN  /\ ret.out.rounds = self.steps
            /\ ret.out.value = RootValue(ret.out.V_T, loc.disc, loc.p, loc.q)
            /\ \A V \in [1..(self.steps + 1) -> PayoffSamples] :
                   LET b == backward_induction(V, self.steps - 1, loc.disc, loc.p, loc.q, 0)
                   IN  /\ b.rounds = self.steps
                       /\ b.V[1] = RootValue(V, loc.disc, loc.p, loc.q)

\* a Binomial with three steps returned a positive price
C8_Witness ==
    /\ CallRequested
    /\ obj[ret.inst].cls = "Binomial"
    /\ obj[ret.inst].steps >= 3
    /\ ret.out.kind = "return"
    /\ ret.out.value > 0

\* C9: calc_price, calc_call_price, calc_put_price and plot_simulation_results
\* change neither any engine's parameters, nor a stored path matrix, nor the
\* generator (no paths are made on demand); a step that changes an engine is a
\* simulate_prices() on that engine, and it leaves the parameters alone.
C9_Frame ==
    [][/\ ret'.op \in PayoffOps \cup {"plot_simulation_results"} =>
              (obj' = obj /\ np_random' = np_random)
       /\ obj' # obj =>
              /\ ret'.op = "simulate_prices"
              /\ \A j \in Insts : j # ret'.inst => obj'[j] = obj[j]
              /\ \A j \in Insts : Params(obj'[j]) = Params(obj[j])]_vars

\* a call price was asked of a MonteCarlo without paths, and it still has none
C9_Witness ==
    /\ ret.op = "calc_call_price"
    /\ obj[ret.inst].cls = "MonteCarlo"
    /\ obj[ret.inst].attrs = {}
    /\ ret.out.kind = "raise"

\* the matrix simulate_prices() gives an engine when nothing else runs
AloneMatrix(self) ==
    simulate_prices([self EXCEPT !.attrs = {}, !.simulation_results_S = None],
                    40).self.simulation_results_S

\* C10: with the operations of two instances interleaved statement by
\* statement, each MonteCarlo ends every simulate_prices() with the matrix it
\* would have computed alone, and its payoff calls return the prices of that
\* matrix.
C10_Isolation ==
    \A i \in Insts :
        (Simulated(i) /\ frame[i].pc = "idle") =>
            /\ obj[i].simulation_results_S = AloneMatrix(obj[i])
            /\ (ret.inst = i /\ ret.op = "calc_call_price") =>
                   ret.out = calc_call_price(
                       [obj[i] EXCEPT !.simulation_results_S = AloneMatrix(obj[i])],
                       np_random).out

====
